---- MODULE Spec2Model ----
(***************************************************************************)
(* Model of src/app.py: the per-person rate solver                         *)
(* optimize_per_person_funding_enum and the "Run Optimization" handler     *)
(* that validates the inputs and calls it.                                 *)
(*                                                                         *)
(* Number representation.  Money is counted in cents and a per-person rate *)
(* in hundredths of a dollar, so pp_values[k] = k and PP * x is k * x      *)
(* cents.  The arithmetic is exact: floating-point rounding is not         *)
(* modelled.  float("inf"), NaN and None are the sentinels Inf, NaN, None. *)
(***************************************************************************)
EXTENDS Integers, Sequences, FiniteSets

VARIABLES pc, uploaded_file, database, total_funding, base_funding,
          unincorporated_funding, cap, caps, cap_arg, idx, best_pp,
          min_funding_gap, funding_per_center, best_funding_per_center,
          df, ret_pp, messages

vars == <<pc, uploaded_file, database, total_funding, base_funding,
          unincorporated_funding, cap, caps, cap_arg, idx, best_pp,
          min_funding_gap, funding_per_center, best_funding_per_center,
          df, ret_pp, messages>>

(* ---------------------------- bounds ----------------------------------- *)
\* number of rate steps of 0.01 in the scanned grid (400000 in the source)
MaxStep == 3
\* most rows in the uploaded table
MaxRows == 2
\* largest people_served value
MaxPeople == 4
\* the per-center cap of the rows that have one, in cents
MaxCap == 2
\* largest total_funding, in cents
MaxTotal == 4

(* --------------------------- constants --------------------------------- *)
\* best_pp = None
None == -1
\* float("inf")
Inf == -2
\* a missing numeric value of the CSV, NaN after pd.read_csv
NaN == -3
\* the "large number" 1000000000000 that stands for "no cap", scaled to fit
\* TLC's 32-bit integers; it exceeds every funding the inputs reach
LargeCap == 100000000
\* the .01 buffer of the comparison, in cents
Buffer == 1

Min(a, b) == IF a <= b THEN a ELSE b
Abs(a) == IF a < 0 THEN 0 - a ELSE a

(* ------------------------- solver helpers ------------------------------ *)
\* "per_center_cap" in df.columns, df = pd.DataFrame(database)
HasCapColumn(db) == Len(db) > 0 /\ "per_center_cap" \in DOMAIN db[1]

\* caps_i: the per_center_cap column, or zeros when the column is absent
CapsI(db) ==
    [i \in 1..Len(db) |-> IF HasCapColumn(db) THEN db[i].per_center_cap ELSE 0]

\* np.where(caps_i == 0, 1000000000000, caps_i)
ReplaceZero(c) == IF c = 0 THEN LargeCap ELSE c

\* variant of EffectiveCap: np.maximum in place of np.minimum
EffectiveCapMaximum(c_i, c) == IF ReplaceZero(c_i) >= c THEN ReplaceZero(c_i) ELSE c

\* caps = np.minimum(np.where(caps_i == 0, LARGE, caps_i), cap) for one row,
\* cap being the global cap after "if cap == 0: cap = LARGE"
EffectiveCap(c_i, c) == Min(ReplaceZero(c_i), c)

\* variant of Funding: the np.minimum with caps is forgotten
FundingUncapped(row, PP, base, uninc, c) ==
    IF row.people_served = NaN \/ row.incentive = NaN
    THEN NaN
    ELSE base + uninc * row.incentive + PP * row.people_served

\* variant of Funding: the incentive term is forgotten
FundingNoIncentive(row, PP, base, uninc, c) ==
    IF row.people_served = NaN \/ row.incentive = NaN
    THEN NaN
    ELSE Min(base + PP * row.people_served, c)

\* one element of np.minimum(base_funding + unincorporated_funding*y + PP*x, caps)
Funding(row, PP, base, uninc, c) ==
    IF row.people_served = NaN \/ row.incentive = NaN
    THEN NaN
    ELSE Min(base + uninc * row.incentive + PP * row.people_served, c)

\* funding_per_center at rate PP
FundingPerCenter(db, PP, base, uninc, cs) ==
    [i \in 1..Len(db) |-> Funding(db[i], PP, base, uninc, cs[i])]

RECURSIVE SumTo(_, _)
SumTo(f, n) == IF n = 0 THEN 0 ELSE f[n] + SumTo(f, n - 1)

\* variant of NpSum: the last row is left out of the sum
NpSumSkipLast(f) ==
    IF \E i \in 1..Len(f) : f[i] = NaN THEN NaN ELSE SumTo(f, Len(f) - 1)

\* np.sum(funding_per_center): NaN as soon as one element is NaN
NpSum(f) == IF \E i \in 1..Len(f) : f[i] = NaN THEN NaN ELSE SumTo(f, Len(f))

\* abs(total_funding - total_funding_used)
FundingGap(total, used) == IF used = NaN THEN NaN ELSE Abs(total - used)

\* variant of Improves: a buffer three times as wide
ImprovesWideBuffer(gap, mingap) ==
    IF gap = NaN THEN FALSE
    ELSE IF mingap = Inf THEN TRUE
    ELSE gap < mingap - 3 * Buffer

\* variant of Improves: no buffer and <= in place of <
ImprovesOrEqual(gap, mingap) ==
    IF gap = NaN THEN FALSE
    ELSE IF mingap = Inf THEN TRUE
    ELSE gap <= mingap

\* funding_gap < (min_funding_gap - .01); a NaN gap compares false,
\* and inf - .01 is inf
Improves(gap, mingap) ==
    IF gap = NaN THEN FALSE
    ELSE IF mingap = Inf THEN TRUE
    ELSE gap < mingap - Buffer

(* ------------------------------ inputs --------------------------------- *)
\* per-center caps: no cap (0) or a cap
Caps == {0, MaxCap}
\* global caps: no cap (0), one below the per-center cap and one above it
GlobalCaps == {0, 1, MaxCap + 1}
\* people_served values: none, one person and the largest count
People == {0, 1, MaxPeople}
RowsWithCap == [people_served : People, incentive : {0, 1}, per_center_cap : Caps]
RowsNoCap == [people_served : People, incentive : {0, 1}]

SeqsUpTo(S, n) == UNION {[1..m -> S] : m \in 0..n}

\* the tables the solver's contract admits: no missing value, no negative
Databases == SeqsUpTo(RowsWithCap, MaxRows) \cup SeqsUpTo(RowsNoCap, MaxRows)

\* uploaded_file is None
NoFile == [present |-> FALSE, columns |-> {}, rows |-> <<>>]

SolverIdle ==
    /\ caps = <<>> /\ cap_arg = 0 /\ idx = 0 /\ best_pp = None
    /\ min_funding_gap = Inf /\ funding_per_center = <<>>
    /\ best_funding_per_center = <<>> /\ df = <<>> /\ ret_pp = None
    /\ messages = {}

\* the solver called directly with inputs satisfying its preconditions
Init ==
    /\ pc = "called"
    /\ uploaded_file = NoFile
    /\ database \in Databases
    /\ total_funding \in 1..MaxTotal
    /\ base_funding \in {0, 1}
    /\ unincorporated_funding \in {0, 1}
    /\ cap \in GlobalCaps
    /\ SolverIdle

(* --------------------- optimize_per_person_funding_enum ---------------- *)
\* lines 17-33: build the caps and initialise the scan
Call ==
    /\ pc = "called"
    /\ Len(database) > 0
    /\ cap_arg' = (IF cap = 0 THEN LargeCap ELSE cap)
    /\ caps' = [i \in 1..Len(database) |-> EffectiveCap(CapsI(database)[i], cap_arg')]
    /\ idx' = 0
    /\ best_pp' = None
    /\ min_funding_gap' = Inf
    /\ pc' = "scan"
    /\ UNCHANGED <<uploaded_file, database, total_funding, base_funding,
                   unincorporated_funding, cap, funding_per_center,
                   best_funding_per_center, df, ret_pp, messages>>

\* line 18: pd.DataFrame([]) has no columns, df["people_served"] raises KeyError
CallKeyError ==
    /\ pc = "called"
    /\ Len(database) = 0
    /\ pc' = "raised"
    /\ UNCHANGED <<uploaded_file, database, total_funding, base_funding,
                   unincorporated_funding, cap, caps, cap_arg, idx, best_pp,
                   min_funding_gap, funding_per_center,
                   best_funding_per_center, df, ret_pp, messages>>

\* lines 35-43: one iteration of "for PP in pp_values"
ScanStep ==
    /\ pc = "scan"
    /\ idx <= MaxStep
    /\ LET PP == idx
           fpc == FundingPerCenter(database, PP, base_funding,
                                   unincorporated_funding, caps)
           funding_gap == FundingGap(total_funding, NpSum(fpc))
       IN /\ funding_per_center' = fpc
          /\ IF Improves(funding_gap, min_funding_gap)
             THEN /\ min_funding_gap' = funding_gap
                  /\ best_pp' = PP
                  /\ best_funding_per_center' = fpc
             ELSE UNCHANGED <<min_funding_gap, best_pp, best_funding_per_center>>
    /\ idx' = idx + 1
    /\ UNCHANGED <<pc, uploaded_file, database, total_funding, base_funding,
                   unincorporated_funding, cap, caps, cap_arg, df, ret_pp,
                   messages>>

\* lines 45-52: write the output columns and return (df, best_pp)
Return ==
    /\ pc = "scan"
    /\ idx > MaxStep
    /\ best_pp # None
    /\ df' = [i \in 1..Len(database) |->
                [row |-> database[i],
                 per_person_rate |-> best_pp,
                 per_center_funding |-> best_funding_per_center[i],
                 total_funding_provided |-> total_funding,
                 base_funding_provided |-> base_funding,
                 unincorporated_funding_provided |-> unincorporated_funding,
                 global_maximum |-> cap_arg]]
    /\ ret_pp' = best_pp
    /\ pc' = "returned"
    /\ UNCHANGED <<uploaded_file, database, total_funding, base_funding,
                   unincorporated_funding, cap, caps, cap_arg, idx, best_pp,
                   min_funding_gap, funding_per_center,
                   best_funding_per_center, messages>>

\* line 46: best_funding_per_center was never assigned (no candidate had a
\* comparable gap), the read raises UnboundLocalError
ReturnUnbound ==
    /\ pc = "scan"
    /\ idx > MaxStep
    /\ best_pp = None
    /\ pc' = "raised"
    /\ UNCHANGED <<uploaded_file, database, total_funding, base_funding,
                   unincorporated_funding, cap, caps, cap_arg, idx, best_pp,
                   min_funding_gap, funding_per_center,
                   best_funding_per_center, df, ret_pp, messages>>

Next == Call \/ CallKeyError \/ ScanStep \/ Return

Spec == Init /\ [][Next]_vars

(* ----------------------- "Run Optimization" handler -------------------- *)
\* the largest scanned rate, 4000 in the source
RateMax == MaxStep

\* the uploaded CSV files: any subset of the columns the code reads, with a
\* people_served cell possibly empty
Columns == {"people_served", "incentive", "per_center_cap"}
CellValues(col) ==
    IF col = "people_served" THEN {NaN} \cup People
    ELSE IF col = "incentive" THEN {0, 1}
    ELSE Caps
RowsOf(cols) == {r \in [cols -> UNION {CellValues(c) : c \in cols}] :
                    \A c \in cols : r[c] \in CellValues(c)}
Files == UNION {{[present |-> TRUE, columns |-> cols, rows |-> rs] :
                    rs \in SeqsUpTo(RowsOf(cols), MaxRows)} :
                cols \in (SUBSET Columns) \ {{}}}

\* the page before the button is pressed: the widgets hold the inputs
\* (number_input has min_value=0.0, so no parameter is negative)
InitApp ==
    /\ pc = "idle"
    /\ uploaded_file \in {NoFile} \cup Files
    /\ database = <<>>
    /\ total_funding \in 0..MaxTotal
    /\ base_funding \in {0, 1}
    /\ unincorporated_funding \in {0, 1}
    /\ cap \in GlobalCaps
    /\ SolverIdle

HandlerFrame ==
    UNCHANGED <<uploaded_file, total_funding, base_funding,
                unincorporated_funding, cap, caps, cap_arg, idx, best_pp,
                min_funding_gap, funding_per_center,
                best_funding_per_center, df, ret_pp>>

\* lines 63-64
RunNoFile ==
    /\ pc = "idle"
    /\ ~uploaded_file.present
    /\ messages' = messages \cup {"error: Please upload a CSV file."}
    /\ pc' = "done"
    /\ UNCHANGED database
    /\ HandlerFrame

\* line 65
InvalidParameters ==
    total_funding <= 0 \/ base_funding < 0 \/ unincorporated_funding < 0 \/ cap < 0

\* lines 65-66
RunInvalidInput ==
    /\ pc = "idle"
    /\ uploaded_file.present
    /\ InvalidParameters
    /\ messages' = messages \cup {"error: Invalid input"}
    /\ pc' = "done"
    /\ UNCHANGED database
    /\ HandlerFrame

\* line 70
HasRequiredColumns(file) == {"people_served", "incentive"} \subseteq file.columns

\* lines 68-71
RunMissingColumns ==
    /\ pc = "idle"
    /\ uploaded_file.present
    /\ ~InvalidParameters
    /\ ~HasRequiredColumns(uploaded_file)
    /\ messages' = messages \cup {"error: CSV must contain columns"}
    /\ pc' = "done"
    /\ UNCHANGED database
    /\ HandlerFrame

\* lines 72-73: the call, with df.to_dict(orient="records") as database
RunSolve ==
    /\ pc = "idle"
    /\ uploaded_file.present
    /\ ~InvalidParameters
    /\ HasRequiredColumns(uploaded_file)
    /\ database' = uploaded_file.rows
    /\ pc' = "called"
    /\ UNCHANGED messages
    /\ HandlerFrame

\* line 77
AtMaxRate(rate) == rate >= RateMax - 1

\* lines 74-78: the success message and the maximum-rate warning
Report ==
    /\ pc = "returned"
    /\ messages' = messages \cup {"success"} \cup
                      (IF AtMaxRate(ret_pp) THEN {"warning: maximum rate"} ELSE {})
    /\ pc' = "done"
    /\ UNCHANGED database
    /\ HandlerFrame

NextApp ==
    \/ RunNoFile \/ RunInvalidInput \/ RunMissingColumns \/ RunSolve
    \/ Call \/ CallKeyError \/ ScanStep \/ Return \/ ReturnUnbound \/ Report

SpecApp == InitApp /\ [][NextApp]_vars

(* ------------------------- notions of the claims ----------------------- *)
\* the per-center cap of a row, 0 when the column is absent
RowCap(row) == IF "per_center_cap" \in DOMAIN row THEN row.per_center_cap ELSE 0

\* a row has a cap when its own cap or the global cap is set (not 0)
Bounded(row) == RowCap(row) # 0 \/ cap # 0

\* the cap of a bounded row: the smaller of the caps that are set
CapOf(row) ==
    IF RowCap(row) = 0 THEN cap
    ELSE IF cap = 0 THEN RowCap(row)
    ELSE Min(RowCap(row), cap)

\* v limited by the cap c, 0 meaning no cap
CappedAt(v, c) == IF c = 0 THEN v ELSE Min(v, c)

\* the capped formula of the funding of a row at a rate
Expected(row, rate) ==
    CappedAt(CappedAt(base_funding + unincorporated_funding * row.incentive
                      + rate * row.people_served, RowCap(row)), cap)

RECURSIVE SumCaps(_, _)
SumCaps(db, n) == IF n = 0 THEN 0 ELSE CapOf(db[n]) + SumCaps(db, n - 1)

AllBounded == \A i \in 1..Len(database) : Bounded(database[i])

\* total_funding >= the sum of the effective caps
Saturated == AllBounded /\ total_funding >= SumCaps(database, Len(database))

\* 0 < total_funding < the sum of the effective caps
Feasible == total_funding > 0 /\ ~Saturated

\* F(rate) and the gap |total_funding - F(rate)| at the candidate rate k
FAt(k) == NpSum(FundingPerCenter(database, k, base_funding,
                                 unincorporated_funding, caps))
GapAt(k) == FundingGap(total_funding, FAt(k))

Candidates == 0..MaxStep

\* the least gap over the real rates of [0, RATE_MAX]: F is continuous and
\* non-decreasing, so it takes every value between F(0) and F(RATE_MAX)
RealMinGap ==
    IF total_funding <= FAt(0) THEN FAt(0) - total_funding
    ELSE IF total_funding >= FAt(MaxStep) THEN total_funding - FAt(MaxStep)
    ELSE 0

Solved == pc = "returned"

(* --------------------------------- C1 ---------------------------------- *)
\* C1 as stated: for a non-empty feasible input the returned gap exceeds the
\* least gap over all real rates in [0, RATE_MAX] by at most the tolerance.
C1_ConvergenceOverReals ==
    (Solved /\ Len(database) > 0 /\ Feasible)
        => GapAt(ret_pp) <= RealMinGap + Buffer

\* C1 amended: for a non-empty feasible input the returned gap exceeds the
\* least gap over the candidate rates (the multiples of 0.01) by at most 0.01.
C1_ConvergenceOverCandidates ==
    (Solved /\ Len(database) > 0 /\ Feasible)
        => \A k \in Candidates : GapAt(ret_pp) <= GapAt(k) + Buffer

\* a feasible run that returned a rate inside the grid whose gap is not the
\* least candidate gap
C1_Witness ==
    /\ Solved /\ Len(database) > 0 /\ Feasible
    /\ ret_pp > 0 /\ ret_pp < MaxStep
    /\ \E k \in Candidates : GapAt(k) < GapAt(ret_pp)

(* --------------------------------- C2 ---------------------------------- *)
\* C2: whenever total_funding >= the sum of the effective caps, the solver
\* returns RATE_MAX and the handler emits the maximum-rate warning.
C2_SaturationSignaled ==
    (pc = "done" /\ "success" \in messages /\ Saturated)
        => (ret_pp = RateMax /\ "warning: maximum rate" \in messages)

(* --------------------------------- C3 ---------------------------------- *)
RespectsCaps(f, row) ==
    /\ RowCap(row) # 0 => f <= RowCap(row)
    /\ cap # 0 => f <= cap

\* C3: at every scan step and in the returned table, the funding of each
\* recipient is at most its per-center cap and at most the global cap,
\* whichever are set.
C3_CapRespect ==
    /\ \A i \in 1..Len(funding_per_center) :
           RespectsCaps(funding_per_center[i], database[i])
    /\ \A i \in 1..Len(best_funding_per_center) :
           RespectsCaps(best_funding_per_center[i], database[i])
    /\ \A i \in 1..Len(df) : RespectsCaps(df[i].per_center_funding, database[i])

\* a returned table in which the per-center cap binds for one recipient and
\* the global cap for another
C3_Witness ==
    /\ Solved /\ Len(database) = 2
    /\ \E i, j \in 1..2 :
         /\ RowCap(database[i]) # 0 /\ cap # 0 /\ RowCap(database[i]) < cap
         /\ df[i].per_center_funding = RowCap(database[i])
         /\ base_funding + unincorporated_funding * database[i].incentive
              + ret_pp * database[i].people_served > RowCap(database[i])
         /\ df[j].per_center_funding = cap
         /\ base_funding + unincorporated_funding * database[j].incentive
              + ret_pp * database[j].people_served > cap

(* --------------------------------- C4 ---------------------------------- *)
\* C4: after every scan step the stored best allocation is the capped
\* formula at the stored best rate, and every row of the returned table
\* carries the returned rate and the capped formula evaluated at it.
C4_ResultConsistency ==
    /\ (pc = "scan" /\ best_pp # None) =>
          \A i \in 1..Len(database) :
              best_funding_per_center[i] = Expected(database[i], best_pp)
    /\ Solved =>
          \A i \in 1..Len(df) :
              /\ df[i].per_person_rate = ret_pp
              /\ df[i].per_center_funding = Expected(database[i], ret_pp)

\* a returned table with a positive rate, one recipient at its cap and one
\* below it that receives the incentive
C4_Witness ==
    /\ Solved /\ ret_pp > 0 /\ unincorporated_funding > 0
    /\ \E i, j \in 1..Len(df) :
         /\ Bounded(database[i]) /\ df[i].per_center_funding = CapOf(database[i])
         /\ database[j].incentive > 0 /\ database[j].people_served > 0
         /\ ~Bounded(database[j])

(* --------------------------------- C5 ---------------------------------- *)
\* C5: the effective cap is the smaller of the per-center cap and the
\* global cap, a per-center cap that is 0 or absent and a global cap of 0
\* counting as unbounded (with neither set, no rate of the grid reaches it).
C5_CapPrecedence ==
    pc \in {"scan", "returned"} =>
        \A i \in 1..Len(database) :
            LET p == RowCap(database[i])
            IN /\ (p # 0 /\ cap # 0) => caps[i] = Min(p, cap)
               /\ (p = 0 /\ cap # 0) => caps[i] = cap
               /\ (p # 0 /\ cap = 0) => caps[i] = p
               /\ (p = 0 /\ cap = 0) =>
                      caps[i] > base_funding
                                + unincorporated_funding * database[i].incentive
                                + MaxStep * database[i].people_served

\* caps computed for a table whose first row has a per-center cap above the
\* global cap and whose second row has a per-center cap of 0
C5_Witness ==
    /\ pc = "scan" /\ Len(database) = 2 /\ cap = 1
    /\ HasCapColumn(database)
    /\ database[1].per_center_cap = 2 /\ database[2].per_center_cap = 0
    /\ caps = <<1, 1>>

(* --------------------------------- C6 ---------------------------------- *)
\* C6: whenever the sum of the effective caps is less than total_funding,
\* every recipient's returned funding equals its effective cap.
C6_AllCapped ==
    (Solved /\ AllBounded /\ SumCaps(database, Len(database)) < total_funding)
        => \A i \in 1..Len(df) : df[i].per_center_funding = CapOf(database[i])

(* --------------------------------- C7 ---------------------------------- *)
\* C7: the returned table echoes the four funding parameters exactly as
\* submitted, the global cap included when it is 0.
C7_ParameterEcho ==
    Solved =>
        \A i \in 1..Len(df) :
            /\ df[i].total_funding_provided = total_funding
            /\ df[i].base_funding_provided = base_funding
            /\ df[i].unincorporated_funding_provided = unincorporated_funding
            /\ df[i].global_maximum = cap

(* --------------------------------- C8 ---------------------------------- *)
\* a missing numeric value in a column the solver uses
MissingValue(file) ==
    \E i \in 1..Len(file.rows) : \E c \in file.columns : file.rows[i][c] = NaN

ValidationError ==
    \/ ~uploaded_file.present
    \/ ~HasRequiredColumns(uploaded_file)
    \/ total_funding <= 0
    \/ base_funding < 0 \/ unincorporated_funding < 0 \/ cap < 0
    \/ MissingValue(uploaded_file)

\* C8: with any validation error the run reports an error and the solver is
\* never invoked: no scan step, no table, no rate.
C8_ValidationBeforeSolving ==
    ValidationError =>
        /\ pc \in {"idle", "done"}
        /\ pc = "done" => \E m \in messages : m # "success" /\ m # "warning: maximum rate"
        /\ idx = 0 /\ df = <<>> /\ ret_pp = None /\ "success" \notin messages

(* --------------------------------- C9 ---------------------------------- *)
NoCaps == cap = 0 /\ \A i \in 1..Len(database) : RowCap(database[i]) = 0

RECURSIVE SumPeople(_, _)
SumPeople(db, n) == IF n = 0 THEN 0 ELSE db[n].people_served + SumPeople(db, n - 1)

\* the setting of C9: no base, no incentive funding, no cap, and
\* total_funding = r * S for the candidate rate r
Linear(r) ==
    /\ base_funding = 0 /\ unincorporated_funding = 0 /\ NoCaps
    /\ SumPeople(database, Len(database)) > 0
    /\ total_funding = r * SumPeople(database, Len(database))

ExactAt(r) ==
    /\ ret_pp = r
    /\ \A i \in 1..Len(df) : df[i].per_center_funding = r * database[i].people_served

\* C9 as stated: in the linear setting the solver returns exactly r and the
\* allocations r * people_served_i, for every positive sum S.
C9_ExactLinear ==
    Solved => \A r \in Candidates : Linear(r) => ExactAt(r)

\* C9 amended: the same when S > 1, so that one rate step moves the total
\* by more than the 0.01 buffer.
C9_ExactLinearAboveBuffer ==
    Solved => \A r \in Candidates :
        (Linear(r) /\ SumPeople(database, Len(database)) > 1) => ExactAt(r)

\* a linear run over two recipients that returned a positive rate
C9_Witness ==
    /\ Solved /\ Len(database) = 2
    /\ database[1].people_served > 0 /\ database[2].people_served > 0
    /\ \E r \in Candidates : r > 0 /\ Linear(r) /\ ExactAt(r)

(* --------------------------------- C10 --------------------------------- *)
\* C10 as stated: the returned rate is the smallest candidate whose gap is
\* the least gap over all candidates.
C10_SmallestMinimizer ==
    (Solved /\ Len(database) > 0) =>
        /\ \A k \in Candidates : GapAt(ret_pp) <= GapAt(k)
        /\ \A k \in Candidates : k < ret_pp => GapAt(k) > GapAt(ret_pp)

\* C10 amended: every smaller candidate has a strictly larger gap than the
\* returned rate, and no larger candidate has a gap better by more than the
\* 0.01 buffer: a later candidate replaces the stored best only when its gap
\* is better by more than 0.01.
C10_SmallestUpToBuffer ==
    (Solved /\ Len(database) > 0) =>
        /\ \A k \in Candidates : k < ret_pp => GapAt(k) > GapAt(ret_pp)
        /\ \A k \in Candidates : k > ret_pp => GapAt(k) >= GapAt(ret_pp) - Buffer

\* a run where a later candidate ties the returned one and another is
\* better by exactly the buffer
C10_Witness ==
    /\ Solved /\ Len(database) > 0
    /\ \E k \in Candidates : k > ret_pp /\ GapAt(k) = GapAt(ret_pp)
    /\ \E k \in Candidates : k > ret_pp /\ GapAt(k) = GapAt(ret_pp) - Buffer
====
